---- MODULE Spec2Model ----
(***************************************************************************)
(* A model of weather.py: the command-line pipeline                        *)
(*   read_user_cli_args -> build_weather_query -> get_weather_data         *)
(*                      -> display_weather_info                            *)
(* and of its pure helpers (_select_weather_display_params,                *)
(* _relative_temp_color).                                                  *)
(*                                                                         *)
(* A Python str is a sequence of one-character strings; a literal piece of *)
(* text that the program never takes apart is kept as one element.         *)
(* A decoded JSON object is a function from its keys to its values, so a   *)
(* key that is absent is a key outside DOMAIN.                             *)
(***************************************************************************)
EXTENDS Integers, Sequences, FiniteSets, TLC

VARIABLES
    pc,            \* position in the __main__ block
    user_args,     \* argparse.Namespace: [city, centigrade]
    query_url,     \* the URL built by build_weather_query
    response,      \* what request.urlopen(query_url) produced
    weather_data,  \* the value get_weather_data returned
    stdout,        \* what has been written to standard output
    stderr,        \* what has been written to the error stream
    exited,        \* the process has terminated
    exit_code,     \* its exit status (meaningful when exited)
    gets,          \* number of HTTP GETs issued (calls of request.urlopen)
    arg,           \* argument of a helper called on its own
    ret            \* what that helper returned

vars == <<pc, user_args, query_url, response, weather_data,
          stdout, stderr, exited, exit_code, gets, arg, ret>>

(***************************************************************************)
(* Bounds of the model.                                                    *)
(***************************************************************************)
MaxTokens == 2      \* city tokens on the command line
MaxTokLen == 1      \* characters per city token
MaxTemp == 30       \* temperatures range over -MaxTemp .. MaxTemp
MaxCode == 1000     \* condition codes range over -MaxCode .. MaxCode

(***************************************************************************)
(* Strings.                                                                *)
(***************************************************************************)
LowerLetters == <<"a","b","c","d","e","f","g","h","i","j","k","l","m",
                  "n","o","p","q","r","s","t","u","v","w","x","y","z">>
UpperLetters == <<"A","B","C","D","E","F","G","H","I","J","K","L","M",
                  "N","O","P","Q","R","S","T","U","V","W","X","Y","Z">>
DigitChars == <<"0","1","2","3","4","5","6","7","8","9">>

Range(s) == { s[i] : i \in DOMAIN s }

RECURSIVE Join(_, _)
\* sep.join(tokens)
Join(sep, tokens) ==
    IF tokens = <<>> THEN <<>>
    ELSE IF Len(tokens) = 1 THEN Head(tokens)
    ELSE Head(tokens) \o sep \o Join(sep, Tail(tokens))

\* str.replace(old, new) for a one-character old
Replace(s, old, new) == [i \in DOMAIN s |-> IF s[i] = old THEN new ELSE s[i]]

RECURSIVE Spaces(_)
Spaces(n) == IF n <= 0 THEN <<>> ELSE <<" ">> \o Spaces(n - 1)

\* format(s, "^width"): s centred in a field of width characters; the
\* smaller half of the padding goes to the left
Center(s, width) ==
    IF Len(s) >= width THEN s
    ELSE LET total == width - Len(s)
             left == total \div 2
         IN  Spaces(left) \o s \o Spaces(total - left)

RECURSIVE StrNat(_)
StrNat(n) == IF n < 10 THEN <<DigitChars[n + 1]>>
             ELSE StrNat(n \div 10) \o <<DigitChars[(n % 10) + 1]>>

\* str(n) of an int, as an f-string replacement field formats it
Str(n) == IF n < 0 THEN <<"-">> \o StrNat(-n) ELSE StrNat(n)

upper(c) == IF \E i \in DOMAIN LowerLetters : LowerLetters[i] = c
            THEN UpperLetters[CHOOSE i \in DOMAIN LowerLetters : LowerLetters[i] = c]
            ELSE c

lower(c) == IF \E i \in DOMAIN UpperLetters : UpperLetters[i] = c
            THEN LowerLetters[CHOOSE i \in DOMAIN UpperLetters : UpperLetters[i] = c]
            ELSE c

\* the description printed as received
capitalize_omitted(s) == s

\* str.capitalize(): first character upper-cased, the rest lower-cased
capitalize(s) == [i \in DOMAIN s |-> IF i = 1 THEN upper(s[i]) ELSE lower(s[i])]

(***************************************************************************)
(* urllib.parse.quote_plus, as build_weather_query calls it.               *)
(***************************************************************************)
AlwaysSafe == Range(LowerLetters) \cup Range(UpperLetters) \cup Range(DigitChars)
                 \cup {"_", ".", "-", "~"}

\* the two hex digits of the reserved ASCII characters of the model
HexOf == [c \in {" ", "#", "%", "&", "+", "/", "=", "?"} |->
            CASE c = " " -> <<"2","0">>
              [] c = "#" -> <<"2","3">>
              [] c = "%" -> <<"2","5">>
              [] c = "&" -> <<"2","6">>
              [] c = "+" -> <<"2","B">>
              [] c = "/" -> <<"2","F">>
              [] c = "=" -> <<"3","D">>
              [] c = "?" -> <<"3","F">>]

RECURSIVE quote(_, _)
\* every character outside AlwaysSafe and safe becomes %XX
quote(s, safe) ==
    IF s = <<>> THEN <<>>
    ELSE (IF Head(s) \in AlwaysSafe \cup safe
          THEN <<Head(s)>>
          ELSE <<"%">> \o HexOf[Head(s)]) \o quote(Tail(s), safe)

\* the city name put into the URL as it is
quote_plus_omitted(s) == s

\* a space is kept by quote and then turned into +
quote_plus(s) == Replace(quote(s, {" "}), " ", "+")

(***************************************************************************)
(* build_weather_query                                                     *)
(***************************************************************************)
BASE_WEATHER_API_URL == <<"http://api.openweathermap.org/data/2.5/weather">>

\* the key stored in secrets.ini, one opaque element
_get_api_key == <<"API_KEY">>

units_of(centigrade) == IF centigrade THEN <<"metric">> ELSE <<"imperial">>

build_weather_query(city_input, centigrade) ==
    LET api_key == _get_api_key
        city_name == Join(<<" ">>, city_input)
        url_encoded_city_name == quote_plus(city_name)
        units == units_of(centigrade)
    IN  BASE_WEATHER_API_URL \o <<"?", "q", "=">> \o url_encoded_city_name
          \o <<"&", "units", "=">> \o units \o <<"&", "APPID", "=">> \o api_key

(***************************************************************************)
(* Inputs.                                                                 *)
(***************************************************************************)
CityChars == {"a", " ", "&", "+", "%", "#", "2"}

SeqsUpTo(S, n) == UNION { [1..k -> S] : k \in 0..n }

CityTokens == SeqsUpTo(CityChars, MaxTokLen)

\* nargs='+': one or more tokens
CityInputs == UNION { [1..k -> CityTokens] : k \in 1..MaxTokens }

NoValue == <<>>

(***************************************************************************)
(* Weather condition codes and _select_weather_display_params.             *)
(***************************************************************************)
\* Python's range(start, stop): start <= n < stop
range(start, stop) == start .. (stop - 1)

THUNDERSTORM == range(200, 300)
DRIZZLE == range(300, 400)
RAIN == range(500, 600)
\* the stop of the range one too far
SNOW_overlapping == range(600, 701)
SNOW == range(600, 700)
ATMOSPHERE == range(700, 800)
\* the stop of the range taken as inclusive
CLEAR_inclusive == range(800, 802)
CLEAR == range(800, 801)
CLOUDY == range(801, 900)

\* the symbols are named by their code points
\* (U+1F4A5 collision, U+1F4A7 droplet, U+1F4A6 sweat droplets,
\*  U+1F328 cloud with snow, U+1F300 cyclone, U+1F506 high brightness,
\*  U+1F4A8 dash, U+1F308 rainbow)
\* the if/elif chain, in the order the tests are made
DisplayTable ==
    << <<THUNDERSTORM, <<"U+1F4A5", "style.RED">> >>,
       <<DRIZZLE,      <<"U+1F4A7", "style.CYAN">> >>,
       <<RAIN,         <<"U+1F4A6", "style.BLUE">> >>,
       <<SNOW,         <<"U+1F328", "style.WHITE">> >>,
       <<ATMOSPHERE,   <<"U+1F300", "style.BLUE">> >>,
       <<CLEAR,        <<"U+1F506", "style.YELLOW">> >>,
       <<CLOUDY,       <<"U+1F4A8", "style.WHITE">> >> >>

\* the else branch
DisplayFallback == <<"U+1F308", "style.RESET">>

RECURSIVE first_match(_, _)
\* the display_params of the first test of the chain that succeeds
first_match(table, weather_id) ==
    IF table = <<>> THEN DisplayFallback
    ELSE IF weather_id \in Head(table)[1] THEN Head(table)[2]
    ELSE first_match(Tail(table), weather_id)

_select_weather_display_params(weather_id) == first_match(DisplayTable, weather_id)

(***************************************************************************)
(* _relative_temp_color                                                    *)
(***************************************************************************)
\* the two arguments compared the other way round
_relative_temp_color_swapped(temperature, feels_like) ==
    IF temperature > feels_like THEN "style.RED"
    ELSE IF temperature < feels_like THEN "style.BLUE"
    ELSE "style.RESET"

_relative_temp_color(temperature, feels_like) ==
    IF feels_like > temperature THEN "style.RED"
    ELSE IF feels_like < temperature THEN "style.BLUE"
    ELSE "style.RESET"

(***************************************************************************)
(* What the HTTP layer and the JSON decoder can hand to get_weather_data.  *)
(***************************************************************************)
\* statuses for which request.urlopen raises error.HTTPError
HTTPErrorCodes == {400, 401, 403, 404, 429, 500, 503}

Restrict(f, keys) == [k \in keys |-> f[k]]

Fields == {"name", "weather", "weather[0]", "id", "description",
           "main", "temp", "feels_like"}

\* the JSON object the API documents, without the members named in missing
\* ("weather[0]" missing: the weather array is empty)
WeatherDoc(name, id, description, temp, feels_like, missing) ==
    LET w0 == Restrict([id |-> id, description |-> description],
                       {"id", "description"} \ missing)
        main == Restrict([temp |-> temp, feels_like |-> feels_like],
                         {"temp", "feels_like"} \ missing)
        top == [name |-> name,
                weather |-> IF "weather[0]" \in missing THEN <<>> ELSE <<w0>>,
                main |-> main]
    IN  Restrict(top, {"name", "weather", "main"} \ missing)

DocNames == { <<"P","a","r","i","s">>, <<"R","i","o">> }
DocIds == {201, 321, 450, 500, 600, 741, 800, 803, 950}
DocDescriptions == { <<"c","l","e","a","r"," ","s","k","y">>,
                     <<"M","i","s","t">> }
DocTemps == {-1, 14, 15}

\* bodies that decode to an object holding every expected member
FullDocs == { WeatherDoc(n, i, d, t, f, {}) :
                n \in DocNames, i \in DocIds, d \in DocDescriptions,
                t \in DocTemps, f \in DocTemps }

\* well-formed bodies that lack one or more of the expected members
PartialDocs == { WeatherDoc(<<"P","a","r","i","s">>, 800,
                            <<"c","l","e","a","r"," ","s","k","y">>, 15, 14, m) :
                   m \in (SUBSET Fields) \ {{}} }

\* the bytes response.read() returns: not valid UTF-8, text that is not
\* JSON, or the JSON text of a document
Bodies == {[kind |-> "undecodable"], [kind |-> "malformed"]}
            \cup { [kind |-> "json", value |-> d] : d \in FullDocs \cup PartialDocs }

\* request.urlopen(query_url): raises HTTPError for a non-success status,
\* raises URLError when no HTTP exchange took place, or returns a response
Responses == { [kind |-> "HTTPError", code |-> c] : c \in HTTPErrorCodes }
               \cup {[kind |-> "URLError"]}
               \cup { [kind |-> "response", data |-> b] : b \in Bodies }

\* json.loads(data) on bytes: decodes them (UnicodeDecodeError), then parses
\* the text (JSONDecodeError)
json_loads(data) ==
    CASE data.kind = "undecodable" -> [raises |-> "UnicodeDecodeError"]
      [] data.kind = "malformed" -> [raises |-> "JSONDecodeError"]
      [] data.kind = "json" -> [raises |-> "", value |-> data.value]

(***************************************************************************)
(* get_weather_data: how the call ends.  [kind |-> "sys.exit", msg],       *)
(* [kind |-> "raise", exc] (an exception no handler catches) or            *)
(* [kind |-> "return", value].                                             *)
(***************************************************************************)
\* the message printed without terminating: the function returns nothing
http_error_printed(code) == [kind |-> "return", value |-> <<>>]

http_error_exit(code) ==
    IF code = 401 THEN [kind |-> "sys.exit", msg |-> <<"Access denied. Check your API key.">>]
    ELSE IF code = 404 THEN [kind |-> "sys.exit", msg |-> <<"Can't find weather data for this city.">>]
    ELSE [kind |-> "sys.exit", msg |-> <<"Something went wrong... (">> \o Str(code) \o <<")">>]

get_weather_data(r) ==
    CASE r.kind = "HTTPError" -> http_error_exit(r.code)
      [] r.kind = "URLError" -> [kind |-> "raise", exc |-> "URLError"]
      [] r.kind = "response" ->
            LET loaded == json_loads(r.data)
            IN  IF loaded.raises = "" THEN [kind |-> "return", value |-> loaded.value]
                ELSE IF loaded.raises = "JSONDecodeError"
                     THEN [kind |-> "sys.exit", msg |-> <<"Couldn't read the server response.">>]
                     ELSE [kind |-> "raise", exc |-> loaded.raises]

(***************************************************************************)
(* display_weather_info                                                    *)
(***************************************************************************)
\* style.PADDING
PADDING == 20

\* style.change_color(color): writes the colour's escape sequence
change_color(color) == <<color>>

\* the flag not passed on: the default Fahrenheit suffix
unit_suffix_default(centigrade) == "F"

unit_suffix(centigrade) == IF centigrade THEN "C" ELSE "F"

\* lines 155-159: the first subscript that fails, "" when all succeed
lookup_failure(data) ==
    IF "name" \notin DOMAIN data THEN "KeyError"
    ELSE IF "weather" \notin DOMAIN data THEN "KeyError"
    ELSE IF Len(data.weather) = 0 THEN "IndexError"
    ELSE IF "id" \notin DOMAIN data.weather[1] THEN "KeyError"
    ELSE IF "description" \notin DOMAIN data.weather[1] THEN "KeyError"
    ELSE IF "main" \notin DOMAIN data THEN "KeyError"
    ELSE IF "temp" \notin DOMAIN data.main THEN "KeyError"
    ELSE IF "feels_like" \notin DOMAIN data.main THEN "KeyError"
    ELSE ""

\* lines 161-179: everything the function writes once the members are read
weather_line(city, weather_id, weather_description, temperature, feels_like, centigrade) ==
    LET display_params == _select_weather_display_params(weather_id)
        weather_symbol == display_params[1]
        color == display_params[2]
        rel_color == _relative_temp_color(temperature, feels_like)
    IN  change_color("style.REVERSE")
          \o Center(city, PADDING)
          \o change_color("style.RESET")
          \o change_color(color)
          \o <<"\t", weather_symbol, " ">>
          \o <<"\t">> \o Center(capitalize(weather_description), PADDING) \o <<" ">>
          \o change_color("style.RESET")
          \o <<"(Currently ">> \o Str(temperature)
          \o <<"U+00B0", unit_suffix(centigrade), ",">>
          \o change_color(rel_color)
          \o <<" feels like ">> \o Str(feels_like)
          \o <<"U+00B0", unit_suffix(centigrade)>>
          \o change_color("style.RESET")
          \o <<")", "\n">>

\* each member read where it is used, after the city has been written
display_weather_info_lazy(data, centigrade) ==
    IF "name" \notin DOMAIN data
    THEN [out |-> <<>>, raises |-> "KeyError"]
    ELSE IF lookup_failure(data) # ""
    THEN [out |-> change_color("style.REVERSE") \o Center(data.name, PADDING)
                    \o change_color("style.RESET"),
          raises |-> lookup_failure(data)]
    ELSE [out |-> weather_line(data.name, data.weather[1].id,
                               data.weather[1].description,
                               data.main.temp, data.main.feels_like, centigrade),
          raises |-> ""]

\* what the call writes to standard output, and the exception it raises
display_weather_info(data, centigrade) ==
    IF lookup_failure(data) # ""
    THEN [out |-> <<>>, raises |-> lookup_failure(data)]
    ELSE [out |-> weather_line(data.name, data.weather[1].id,
                               data.weather[1].description,
                               data.main.temp, data.main.feels_like, centigrade),
          raises |-> ""]

(***************************************************************************)
(* How the process ends.                                                   *)
(***************************************************************************)
\* sys.exit(msg) with a string: msg goes to stderr, the exit status is 1
sys_exit(msg) ==
    /\ stderr' = Append(stderr, msg)
    /\ exited' = TRUE
    /\ exit_code' = 1
    /\ pc' = "exit"

\* an exception nothing catches: the traceback goes to stderr, status 1
uncaught(exc) ==
    /\ stderr' = Append(stderr, <<"Traceback (most recent call last):", exc>>)
    /\ exited' = TRUE
    /\ exit_code' = 1
    /\ pc' = "exit"

\* falling off the end of the script: status 0
script_end ==
    /\ exited' = TRUE
    /\ exit_code' = 0
    /\ pc' = "done"
    /\ UNCHANGED stderr

(***************************************************************************)
(* The __main__ block, one action per statement.                           *)
(***************************************************************************)
MainCityInputs == { << <<"a">> >>, << <<"a">>, <<"&">> >> }

ReadUserCliArgs(cities) ==
    /\ pc = "start"
    /\ \E city \in cities, centigrade \in BOOLEAN :
          user_args' = [city |-> city, centigrade |-> centigrade]
    /\ pc' = "args"
    /\ UNCHANGED <<query_url, response, weather_data, stdout, stderr,
                   exited, exit_code, gets, arg, ret>>

BuildWeatherQuery ==
    /\ pc = "args"
    /\ query_url' = build_weather_query(user_args.city, user_args.centigrade)
    /\ pc' = "query"
    /\ UNCHANGED <<user_args, response, weather_data, stdout, stderr,
                   exited, exit_code, gets, arg, ret>>

GetWeatherData ==
    /\ pc = "query"
    /\ \E r \in Responses :
          /\ response' = r
          /\ gets' = gets + 1
          /\ LET end == get_weather_data(r)
             IN  CASE end.kind = "sys.exit" ->
                        sys_exit(end.msg) /\ UNCHANGED weather_data
                   [] end.kind = "raise" ->
                        uncaught(end.exc) /\ UNCHANGED weather_data
                   [] end.kind = "return" ->
                        /\ weather_data' = end.value
                        /\ pc' = "data"
                        /\ UNCHANGED <<stderr, exited, exit_code>>
    /\ UNCHANGED <<user_args, query_url, stdout, arg, ret>>

DisplayWeatherInfo ==
    /\ pc = "data"
    /\ LET shown == display_weather_info(weather_data, user_args.centigrade)
       IN  /\ stdout' = stdout \o shown.out
           /\ IF shown.raises # "" THEN uncaught(shown.raises) ELSE script_end
    /\ UNCHANGED <<user_args, query_url, response, weather_data, gets, arg, ret>>

NoResponse == [kind |-> "none"]

Init ==
    /\ pc = "start"
    /\ user_args = NoValue
    /\ query_url = NoValue
    /\ response = NoResponse
    /\ weather_data = NoValue
    /\ stdout = <<>>
    /\ stderr = <<>>
    /\ exited = FALSE
    /\ exit_code = 0
    /\ gets = 0
    /\ arg = NoValue
    /\ ret = NoValue

Next ==
    \/ ReadUserCliArgs(MainCityInputs)
    \/ BuildWeatherQuery
    \/ GetWeatherData
    \/ DisplayWeatherInfo

Spec == Init /\ [][Next]_vars

(***************************************************************************)
(* The helpers called on their own, on every input of a bounded set.       *)
(***************************************************************************)
Idle ==
    /\ user_args = NoValue
    /\ query_url = NoValue
    /\ response = NoResponse
    /\ weather_data = NoValue
    /\ stdout = <<>>
    /\ stderr = <<>>
    /\ exited = FALSE
    /\ exit_code = 0
    /\ gets = 0

Codes == -MaxCode .. MaxCode
Temps == -MaxTemp .. MaxTemp

SelectWeatherDisplayParams ==
    /\ pc = "call"
    /\ ret' = _select_weather_display_params(arg)
    /\ pc' = "return"
    /\ UNCHANGED <<user_args, query_url, response, weather_data, stdout,
                   stderr, exited, exit_code, gets, arg>>

RelativeTempColor ==
    /\ pc = "call"
    /\ ret' = _relative_temp_color(arg.temperature, arg.feels_like)
    /\ pc' = "return"
    /\ UNCHANGED <<user_args, query_url, response, weather_data, stdout,
                   stderr, exited, exit_code, gets, arg>>

InitClassify == pc = "call" /\ arg \in Codes /\ ret = NoValue /\ Idle

NextClassify == SelectWeatherDisplayParams

SpecClassify == InitClassify /\ [][NextClassify]_vars

InitTemp ==
    /\ pc = "call"
    /\ arg \in [temperature : Temps, feels_like : Temps]
    /\ ret = NoValue
    /\ Idle

NextTemp == RelativeTempColor

SpecTemp == InitTemp /\ [][NextTemp]_vars

\* the query builder on every city of the bounded alphabet
NextQuery ==
    \/ ReadUserCliArgs(CityInputs)
    \/ BuildWeatherQuery

SpecQuery == Init /\ [][NextQuery]_vars

(***************************************************************************)
(* Reading a URL back, as the server does.                                 *)
(***************************************************************************)
\* index of the first occurrence of c in s, or 0
IndexOf(s, c) ==
    IF c \in Range(s) THEN CHOOSE i \in DOMAIN s : s[i] = c /\ \A j \in 1..(i - 1) : s[j] # c
    ELSE 0

RECURSIVE SplitOn(_, _)
\* s.split(sep)
SplitOn(s, sep) ==
    IF IndexOf(s, sep) = 0 THEN <<s>>
    ELSE <<SubSeq(s, 1, IndexOf(s, sep) - 1)>>
            \o SplitOn(SubSeq(s, IndexOf(s, sep) + 1, Len(s)), sep)

\* the query of the URL: what follows the first ? and precedes the fragment
QueryOf(url) ==
    LET rest == SubSeq(url, IndexOf(url, "?") + 1, Len(url))
    IN  IF IndexOf(rest, "#") = 0 THEN rest ELSE SubSeq(rest, 1, IndexOf(rest, "#") - 1)

\* name=value, cut at the first =
ParamOf(p) ==
    IF IndexOf(p, "=") = 0 THEN [name |-> p, value |-> <<>>]
    ELSE [name |-> SubSeq(p, 1, IndexOf(p, "=") - 1),
          value |-> SubSeq(p, IndexOf(p, "=") + 1, Len(p))]

\* the parameters of the URL, in order
ParamsOf(url) ==
    LET ps == SplitOn(QueryOf(url), "&") IN [i \in DOMAIN ps |-> ParamOf(ps[i])]

RECURSIVE unquote(_)
\* urllib.parse.unquote: %XX back to its character
unquote(s) ==
    IF s = <<>> THEN <<>>
    ELSE IF /\ Head(s) = "%"
            /\ Len(s) >= 3
            /\ \E c \in DOMAIN HexOf : HexOf[c] = <<s[2], s[3]>>
         THEN <<CHOOSE c \in DOMAIN HexOf : HexOf[c] = <<s[2], s[3]>> >>
                 \o unquote(SubSeq(s, 4, Len(s)))
         ELSE <<Head(s)>> \o unquote(Tail(s))

\* urllib.parse.unquote_plus: + back to a space, then unquote
unquote_plus(s) == unquote(Replace(s, "+", " "))

(***************************************************************************)
(* Reading standard output.                                                *)
(***************************************************************************)
\* the least index >= from at which needle occurs in hay, or 0
FindFrom(hay, needle, from) ==
    LET at == { i \in from..(Len(hay) - Len(needle) + 1) :
                  SubSeq(hay, i, i + Len(needle) - 1) = needle }
    IN  IF at = {} THEN 0 ELSE CHOOSE i \in at : \A j \in at : i <= j

RECURSIVE ContainsInOrderFrom(_, _, _)
ContainsInOrderFrom(hay, needles, from) ==
    IF needles = <<>> THEN TRUE
    ELSE LET i == FindFrom(hay, Head(needles), from)
         IN  /\ i # 0
             /\ ContainsInOrderFrom(hay, Tail(needles), i + Len(Head(needles)))

\* the needles occur in hay one after the other, without overlap
ContainsInOrder(hay, needles) == ContainsInOrderFrom(hay, needles, 1)

Count(s, c) == Cardinality({ i \in DOMAIN s : s[i] = c })

(***************************************************************************)
(* The errors of the fetch stage, as the specification lists them.         *)
(***************************************************************************)
CredentialError == response.kind = "HTTPError" /\ response.code = 401
NotFoundError == response.kind = "HTTPError" /\ response.code = 404
StatusError == response.kind = "HTTPError" /\ response.code \notin {401, 404}
DecodeError == response.kind = "response" /\ response.data.kind # "json"
FetchError == CredentialError \/ NotFoundError \/ StatusError \/ DecodeError

AccessDeniedMsg == <<"Access denied. Check your API key.">>
NotFoundMsg == <<"Can't find weather data for this city.">>
BadResponseMsg == <<"Couldn't read the server response.">>
StatusMsg(code) == <<"Something went wrong... (">> \o Str(code) \o <<")">>

\* the message the specification gives the error of this run
ExpectedMsg ==
    IF CredentialError THEN AccessDeniedMsg
    ELSE IF NotFoundError THEN NotFoundMsg
    ELSE IF StatusError THEN StatusMsg(response.code)
    ELSE BadResponseMsg

\* get_weather_data handed no value to its caller
NothingReturned == weather_data = NoValue /\ pc \notin {"data", "done"}

\* C1: each of the four fetch failures (401, 404, another non-success
\* status, a body that is not parsable JSON) ends the program with its own
\* message, and get_weather_data returns no value in any of them.
C1_EachFailureHasItsMessage ==
    FetchError => /\ exited
                  /\ stderr = <<ExpectedMsg>>
                  /\ NothingReturned

\* C2: every error is terminal: once the fetch stage has reported an error
\* the process has exited, exactly one GET was issued, standard output is
\* empty, and no further step of the program is possible.
C2_ErrorsAreTerminal ==
    FetchError => /\ exited
                  /\ pc = "exit"
                  /\ gets = 1
                  /\ stdout = <<>>
                  /\ ~ENABLED Next

C2_Witness == NotFoundError /\ exited /\ gets = 1

\* C3: the exit code is 0 when the run succeeds and non-zero on any fetch
\* or parse error, and in every such error run the human-readable message
\* is on the error stream and nothing is on standard output.
C3_ExitCodeAndStream ==
    /\ pc = "done" => exited /\ exit_code = 0 /\ stderr = <<>>
    /\ FetchError => /\ exited
                     /\ exit_code # 0
                     /\ stderr = <<ExpectedMsg>>
                     /\ stdout = <<>>

(***************************************************************************)
(* The categories of the specification's table.                            *)
(***************************************************************************)
StormPair == <<"U+1F4A5", "style.RED">>
DrizzlePair == <<"U+1F4A7", "style.CYAN">>
RainPair == <<"U+1F4A6", "style.BLUE">>
SnowPair == <<"U+1F328", "style.WHITE">>
AtmosphericPair == <<"U+1F300", "style.BLUE">>
ClearPair == <<"U+1F506", "style.YELLOW">>
CloudyPair == <<"U+1F4A8", "style.WHITE">>
FallbackPair == <<"U+1F308", "style.RESET">>

CategoryPair(code) ==
    CASE 200 <= code /\ code < 300 -> StormPair
      [] 300 <= code /\ code < 400 -> DrizzlePair
      [] 500 <= code /\ code < 600 -> RainPair
      [] 600 <= code /\ code < 700 -> SnowPair
      [] 700 <= code /\ code < 800 -> AtmosphericPair
      [] 800 <= code /\ code < 801 -> ClearPair
      [] 801 <= code /\ code < 900 -> CloudyPair
      [] code < 200 \/ (400 <= code /\ code < 500) \/ code >= 900 -> FallbackPair

\* C4: for every integer code the classifier returns the pair of the
\* category the table gives it, and the fallback pair outside the table.
C4_ClassifierFollowsTable ==
    pc = "return" => ret = CategoryPair(arg)

C4_Witness == pc = "return" /\ arg = 801 /\ ret = CloudyPair

\* the ranges of the chain that hold the code
Matching(code) == { i \in DOMAIN DisplayTable : code \in DisplayTable[i][1] }

\* C5: no integer lies in two of the seven ranges, the result is the same
\* whichever range is tested first, and every integer gets exactly one of
\* the eight categories (one range, or the fallback when none holds it).
C5_RangesDisjointAndTotal ==
    pc = "return" =>
        /\ Cardinality(Matching(arg)) <= 1
        /\ \A i \in DOMAIN DisplayTable :
              first_match(<<DisplayTable[i]>> \o DisplayTable, arg) = ret
        /\ \A i \in Matching(arg) : ret = DisplayTable[i][2]
        /\ Matching(arg) = {} => ret = DisplayFallback
        /\ ret \in {StormPair, DrizzlePair, RainPair, SnowPair, AtmosphericPair,
                    ClearPair, CloudyPair, FallbackPair}

C5_Witness == pc = "return" /\ arg = 700 /\ Matching(arg) = {5} /\ ret = AtmosphericPair

\* C6: hotter (red) exactly when feels_like > temperature, colder (blue)
\* exactly when feels_like < temperature, neutral (reset) exactly when the
\* two are equal; always one of the three.
C6_RelativeTempColor ==
    pc = "return" =>
        /\ ret = "style.RED" <=> arg.feels_like > arg.temperature
        /\ ret = "style.BLUE" <=> arg.feels_like < arg.temperature
        /\ ret = "style.RESET" <=> arg.feels_like = arg.temperature
        /\ ret \in {"style.RED", "style.BLUE", "style.RESET"}

C6_Witness ==
    /\ pc = "return"
    /\ arg = [temperature |-> 25, feels_like |-> 30]
    /\ ret = "style.RED"

\* C7: the tokens are joined with single spaces and the joined name is
\* percent-encoded in q so that decoding q gives the joined name back, and
\* no character of the name ends q or adds a parameter: the URL has the
\* three parameters q, units and APPID and nothing else.
C7_CityNameRoundTrip ==
    pc = "query" =>
        LET params == ParamsOf(query_url)
        IN  /\ Len(params) = 3
            /\ params[1].name = <<"q">>
            /\ params[2].name = <<"units">>
            /\ params[3].name = <<"APPID">>
            /\ unquote_plus(params[1].value) = Join(<<" ">>, user_args.city)
            /\ params[3].value = _get_api_key
            /\ "#" \notin Range(query_url)

C7_Witness ==
    /\ pc = "query"
    /\ user_args.city = << <<"&">>, <<"+">> >>
    /\ ParamsOf(query_url)[1].value = <<"%", "2", "6", "+", "%", "2", "B">>

\* the unit parameter of the URL that has been built
UrlUnits == ParamsOf(query_url)[2].value

\* the characters that follow a degree sign on standard output
PrintedSuffixes == { stdout[i + 1] : i \in { j \in DOMAIN stdout : stdout[j] = "U+00B0" } }

\* C8: flag true: units=metric in the URL and both printed temperatures
\* carry C; flag false: units=imperial and both carry F; the URL and the
\* printed line never disagree.
C8_UnitsConsistent ==
    /\ pc \in {"query", "data", "done", "exit"} =>
          UrlUnits = IF user_args.centigrade THEN <<"metric">> ELSE <<"imperial">>
    /\ pc = "done" =>
          /\ Count(stdout, "U+00B0") = 2
          /\ PrintedSuffixes = IF UrlUnits = <<"metric">> THEN {"C"} ELSE {"F"}

C8_Witness ==
    /\ pc = "done"
    /\ user_args.centigrade
    /\ UrlUnits = <<"metric">>
    /\ PrintedSuffixes = {"C"}

\* the body of the response decoded to an object with every expected member
CompleteBody ==
    /\ response.kind = "response"
    /\ response.data.kind = "json"
    /\ response.data.value \in FullDocs

\* the body decoded to an object that lacks an expected member
PartialBody ==
    /\ response.kind = "response"
    /\ response.data.kind = "json"
    /\ response.data.value \in PartialDocs

\* first character in upper case, the others in lower case
Capitalized(s) ==
    IF s = <<>> THEN <<>>
    ELSE <<upper(Head(s))>> \o [i \in 1..(Len(s) - 1) |-> lower(s[i + 1])]

\* C9: a successful GET whose body holds all five fields writes exactly
\* one line to standard output, holding in this order the city name, the
\* symbol of weather[0].id, the capitalized description, the temperature
\* with its unit suffix and the feels-like temperature with its suffix.
C9_OneWeatherLine ==
    /\ CompleteBody => pc \in {"data", "done"}
    /\ pc = "done" =>
          LET doc == response.data.value
              suffix == IF user_args.centigrade THEN "C" ELSE "F"
          IN  /\ CompleteBody
              /\ Count(stdout, "\n") = 1
              /\ stdout[Len(stdout)] = "\n"
              /\ ContainsInOrder(stdout,
                    << doc.name,
                       <<CategoryPair(doc.weather[1].id)[1]>>,
                       Capitalized(doc.weather[1].description),
                       Str(doc.main.temp) \o <<"U+00B0", suffix>>,
                       Str(doc.main.feels_like) \o <<"U+00B0", suffix>> >>)

C9_Witness ==
    /\ pc = "done"
    /\ ~user_args.centigrade
    /\ response.data.value =
          WeatherDoc(<<"P","a","r","i","s">>, 800,
                     <<"c","l","e","a","r"," ","s","k","y">>, 15, 14, {})
    /\ ContainsInOrder(stdout,
          << <<"P","a","r","i","s">>, <<"U+1F506">>,
             <<"C","l","e","a","r"," ","s","k","y">>,
             <<"1","5","U+00B0","F">>, <<"1","4","U+00B0","F">> >>)

\* C10: a well-formed body that lacks an expected field makes
\* display_weather_info fail with an uncaught lookup failure before
\* anything is written to standard output, and the run ends non-zero.
C10_MissingFieldFailsBeforeOutput ==
    PartialBody =>
        /\ pc \in {"data", "exit"}
        /\ stdout = <<>>
        /\ pc = "exit" =>
              /\ exited
              /\ exit_code # 0
              /\ Len(stderr) = 1
              /\ stderr[1][2] \in {"KeyError", "IndexError"}

C10_Witness ==
    /\ PartialBody
    /\ "name" \in DOMAIN weather_data
    /\ "main" \notin DOMAIN weather_data
    /\ pc = "exit"
    /\ stdout = <<>>

====
